---- MODULE Spec2Model ----
(***************************************************************************)
(* slidepy: a documentation-driven command-line dispatcher (cli.py), a     *)
(* slide factory (slides.py) and the `generate` driver (app.py).           *)
(*                                                                         *)
(* Spec     models one process of the App: run() parses argv, dispatches   *)
(*          to `default` or `generate`, and `generate` loads the           *)
(*          configuration, builds the slides one by one and saves.         *)
(* SpecCli  models CommandlineInterface over a family of handler classes   *)
(*          whose `generate` command documents its parameters with         *)
(*          varying types and optionality.                                 *)
(***************************************************************************)
EXTENDS Integers, Sequences, FiniteSets, TLC

VARIABLES
    docParams,     \* the parameters documented by the generate command
    parser,        \* self._parser / self._cmds as built by __init__
    argv,          \* the process arguments handed to run()
    invoked,       \* handler invocations made by run(): <<[handler, kwargs]>>
    helpPrinted,   \* self._parser.print_help() was called
    usageError,    \* argparse reported an error and exited ("" when none)
    pc,            \* position of the process
    fsConfig,      \* content of the file at ConfigPath
    kwargs,        \* keyword arguments generate was called with
    data,          \* the loaded configuration (data["presentation"])
    presentation,  \* the pptx document: sequence of slides
    calls,         \* Slide.from_dict calls made so far, with their outcome
    log,           \* records written to the logger
    saved,         \* presentation.save() calls that wrote a file
    raised         \* exception that propagated out of the handler

vars == <<docParams, parser, argv, invoked, helpPrinted, usageError, pc, fsConfig,
          kwargs, data, presentation, calls, log, saved, raised>>

----------------------------------------------------------------------------
(* Bounds of the model *)

\* longest "presentation" sequence of a configuration
MaxSlides == 2
\* longest "content" sequence of a list slide
MaxEntries == 2
\* deepest indentation level used by a list entry
MaxLevel == 1

----------------------------------------------------------------------------
(* JSON values: a tag and a payload *)

Absent == [t |-> "absent", v |-> ""]
JStr(s) == [t |-> "str", v |-> s]
JInt(n) == [t |-> "int", v |-> n]
JList(q) == [t |-> "list", v |-> q]
JObj(keys) == [t |-> "dict", v |-> keys]

\* exceptions: class and argument
NoExc == [cls |-> "none", arg |-> ""]
Exc(c, a) == [cls |-> c, arg |-> a]

----------------------------------------------------------------------------
(* The file system the process runs in *)

ConfigPath == "cfg.json"
ReadOnlyPath == "ro"
Paths == {ConfigPath, ReadOnlyPath}

\* open(path, 'w') as done by presentation.save
Writable(path) == path # ReadOnlyPath

\* PIL opening the picture at `path`
ImageFile(path) == IF path = "img.png" THEN "image" ELSE "missing"

\* numpy.loadtxt(path, delimiter=';'): a 2-D table, a file with text in it,
\* a single row (loaded as a 1-D array), or no such file
DataFile(path) ==
    CASE path = "data.csv" -> "table"
      [] path = "text.csv" -> "nonnumeric"
      [] path = "row.csv" -> "onerow"
      [] OTHER -> "missing"

----------------------------------------------------------------------------
(* Rendered slides *)

TitleLayout == 0
BulletLayout == 1
ContentLayout == 5

Unset == "<unset>"
NoPicture == [src |-> "none", path |-> "", xlabel |-> "", ylabel |-> ""]

\* presentation.slides.add_slide(layout): a slide with nothing set yet
NewSlide(layout) ==
    [layout |-> layout, title |-> Unset, body |-> Unset, textbox |-> Unset,
     paragraphs |-> <<>>, picture |-> NoPicture]

\* Slide.__init__
AddSlide(pres, layout) == Append(pres, NewSlide(layout))

\* the last slide of pres (self.ref) with field f set
SetRef(pres, f, val) ==
    [pres EXCEPT ![Len(pres)] = [@ EXCEPT ![f] = val]]

----------------------------------------------------------------------------
(* Calling a variant constructor with **dict *)

FieldNames == {"title", "content", "configuration", "extra"}

Present(kw) == {k \in FieldNames : kw[k] # Absent}

\* Python binds the keyword arguments before the body runs
Unexpected(kw, params) == Present(kw) \ params

\* an argument, or its default when the key is absent
Arg(kw, k, default) == IF kw[k] = Absent THEN default ELSE kw[k]

\* typeguard: value is an instance of str
IsStr(x) == x.t = "str"

\* typeguard: value matches ListElements (level:int, text:str)
IsListElements(e) == e.level.t = "int" /\ e.text.t = "str"

\* typeguard: value matches list[ListElements]
IsListOfElements(x) ==
    /\ x.t = "list"
    /\ \A j \in 1..Len(x.v) : IsListElements(x.v[j])

IsDict(x) == x.t = "dict"

Result(pres, exc) == [pres |-> pres, exc |-> exc]

----------------------------------------------------------------------------
(* The slide variants (slides.py) *)

\* TitleSlide.__init__
TitleSlide(pres, kw) ==
    LET title == Arg(kw, "title", JStr(""))
        content == Arg(kw, "content", JStr(""))
    IN  IF Unexpected(kw, {"title", "content"}) # {}
        THEN Result(pres, Exc("TypeError", "unexpected keyword argument"))
        ELSE IF ~IsStr(title) THEN Result(pres, Exc("TypeCheckError", "title"))
        ELSE IF ~IsStr(content) THEN Result(pres, Exc("TypeCheckError", "content"))
        ELSE LET p1 == AddSlide(pres, TitleLayout)
                 p2 == SetRef(p1, "title", title.v)
                 p3 == SetRef(p2, "body", content.v)
             IN  Result(p3, NoExc)

\* TextSlide.__init__ picking the bulleted layout instead of the content
\* layout: a fault the layout property must detect
TextSlideBulleted(pres, kw) ==
    LET title == Arg(kw, "title", JStr(""))
        content == Arg(kw, "content", JStr(""))
    IN  IF Unexpected(kw, {"title", "content"}) # {}
        THEN Result(pres, Exc("TypeError", "unexpected keyword argument"))
        ELSE IF ~IsStr(title) THEN Result(pres, Exc("TypeCheckError", "title"))
        ELSE IF ~IsStr(content) THEN Result(pres, Exc("TypeCheckError", "content"))
        ELSE LET p1 == AddSlide(pres, BulletLayout)
                 p2 == SetRef(p1, "title", title.v)
                 p3 == SetRef(p2, "textbox", content.v)
             IN  Result(p3, NoExc)

\* TextSlide.__init__
TextSlide(pres, kw) ==
    LET title == Arg(kw, "title", JStr(""))
        content == Arg(kw, "content", JStr(""))
    IN  IF Unexpected(kw, {"title", "content"}) # {}
        THEN Result(pres, Exc("TypeError", "unexpected keyword argument"))
        ELSE IF ~IsStr(title) THEN Result(pres, Exc("TypeCheckError", "title"))
        ELSE IF ~IsStr(content) THEN Result(pres, Exc("TypeCheckError", "content"))
        ELSE LET p1 == AddSlide(pres, ContentLayout)
                 p2 == SetRef(p1, "title", title.v)
                 p3 == SetRef(p2, "textbox", content.v)
             IN  Result(p3, NoExc)

\* the paragraph loop inserting each new paragraph before the earlier ones:
\* a fault the paragraph-order property must detect
RECURSIVE AddParagraphsFront(_, _)
AddParagraphsFront(paragraphs, entries) ==
    IF entries = <<>> THEN paragraphs
    ELSE AddParagraphsFront(
             <<[text |-> Head(entries).text.v,
                level |-> Head(entries).level.v]>> \o paragraphs,
             Tail(entries))

\* the loop of ListSlide.__init__: one tf.add_paragraph() per entry, then
\* p.text and p.level from the entry
RECURSIVE AddParagraphs(_, _)
AddParagraphs(paragraphs, entries) ==
    IF entries = <<>> THEN paragraphs
    ELSE AddParagraphs(
             Append(paragraphs, [text |-> Head(entries).text.v,
                                 level |-> Head(entries).level.v]),
             Tail(entries))

\* ListSlide.__init__
ListSlide(pres, kw) ==
    LET title == Arg(kw, "title", JStr(""))
        content == Arg(kw, "content", JList(<<>>))
    IN  IF Unexpected(kw, {"title", "content"}) # {}
        THEN Result(pres, Exc("TypeError", "unexpected keyword argument"))
        ELSE IF ~IsStr(title) THEN Result(pres, Exc("TypeCheckError", "title"))
        ELSE IF ~IsListOfElements(content)
        THEN Result(pres, Exc("TypeCheckError", "content"))
        ELSE LET p1 == AddSlide(pres, BulletLayout)
                 p2 == SetRef(p1, "title", title.v)
                 p3 == SetRef(p2, "paragraphs",
                              AddParagraphs(p2[Len(p2)].paragraphs, content.v))
             IN  Result(p3, NoExc)

\* PictureSlide.__init__ opening the image before it adds the slide: a
\* variant the frame property of a failed build must tell from the code
PictureSlideLoadFirst(pres, kw) ==
    LET title == Arg(kw, "title", JStr(""))
        content == Arg(kw, "content", JStr(""))
    IN  IF Unexpected(kw, {"title", "content"}) # {}
        THEN Result(pres, Exc("TypeError", "unexpected keyword argument"))
        ELSE IF ~IsStr(title) THEN Result(pres, Exc("TypeCheckError", "title"))
        ELSE IF ~IsStr(content) THEN Result(pres, Exc("TypeCheckError", "content"))
        ELSE IF ImageFile(content.v) # "image"
        THEN Result(pres, Exc("OSError", content.v))
        ELSE LET p1 == AddSlide(pres, ContentLayout)
                 p2 == SetRef(p1, "title", title.v)
             IN  Result(SetRef(p2, "picture",
                               [src |-> "file", path |-> content.v,
                                xlabel |-> "", ylabel |-> ""]),
                        NoExc)

\* PictureSlide.__init__
PictureSlide(pres, kw) ==
    LET title == Arg(kw, "title", JStr(""))
        content == Arg(kw, "content", JStr(""))
    IN  IF Unexpected(kw, {"title", "content"}) # {}
        THEN Result(pres, Exc("TypeError", "unexpected keyword argument"))
        ELSE IF ~IsStr(title) THEN Result(pres, Exc("TypeCheckError", "title"))
        ELSE IF ~IsStr(content) THEN Result(pres, Exc("TypeCheckError", "content"))
        ELSE LET p1 == AddSlide(pres, ContentLayout)
                 p2 == SetRef(p1, "title", title.v)
             IN  IF ImageFile(content.v) # "image"
                 THEN Result(p2, Exc("OSError", content.v))
                 ELSE Result(SetRef(p2, "picture",
                                    [src |-> "file", path |-> content.v,
                                     xlabel |-> "", ylabel |-> ""]),
                             NoExc)

\* the value stored under a key of the "configuration" object
LabelValue(k) == IF k = "x-label" THEN "X" ELSE "Y"

\* PlotSlide.__init__ reading the axis labels before it loads the data
\* file: a variant the error-kind property must tell from the code
PlotSlideLabelsFirst(pres, kw) ==
    LET title == Arg(kw, "title", JStr(""))
        content == Arg(kw, "content", JStr(""))
        configuration == Arg(kw, "configuration", JObj({}))
    IN  IF Unexpected(kw, {"title", "content", "configuration"}) # {}
        THEN Result(pres, Exc("TypeError", "unexpected keyword argument"))
        ELSE IF ~IsStr(title) THEN Result(pres, Exc("TypeCheckError", "title"))
        ELSE IF ~IsStr(content) THEN Result(pres, Exc("TypeCheckError", "content"))
        ELSE IF ~IsDict(configuration)
        THEN Result(pres, Exc("TypeCheckError", "configuration"))
        ELSE LET p1 == AddSlide(pres, ContentLayout)
                 p2 == SetRef(p1, "title", title.v)
                 file == DataFile(content.v)
             IN  IF "x-label" \notin configuration.v
                 THEN Result(p2, Exc("KeyError", "x-label"))
                 ELSE IF "y-label" \notin configuration.v
                 THEN Result(p2, Exc("KeyError", "y-label"))
                 ELSE CASE file = "missing" -> Result(p2, Exc("OSError", content.v))
                        [] file = "nonnumeric" ->
                             Result(p2, Exc("ValueError",
                                            "could not convert string to float"))
                        [] file = "onerow" ->
                             Result(p2, Exc("IndexError", "too many indices for array"))
                        [] OTHER ->
                             Result(SetRef(p2, "picture",
                                           [src |-> "plot", path |-> content.v,
                                            xlabel |-> LabelValue("x-label"),
                                            ylabel |-> LabelValue("y-label")]),
                                    NoExc)

\* PlotSlide.__init__
PlotSlide(pres, kw) ==
    LET title == Arg(kw, "title", JStr(""))
        content == Arg(kw, "content", JStr(""))
        configuration == Arg(kw, "configuration", JObj({}))
    IN  IF Unexpected(kw, {"title", "content", "configuration"}) # {}
        THEN Result(pres, Exc("TypeError", "unexpected keyword argument"))
        ELSE IF ~IsStr(title) THEN Result(pres, Exc("TypeCheckError", "title"))
        ELSE IF ~IsStr(content) THEN Result(pres, Exc("TypeCheckError", "content"))
        ELSE IF ~IsDict(configuration)
        THEN Result(pres, Exc("TypeCheckError", "configuration"))
        ELSE LET p1 == AddSlide(pres, ContentLayout)
                 p2 == SetRef(p1, "title", title.v)
                 file == DataFile(content.v)
             IN  CASE file = "missing" -> Result(p2, Exc("OSError", content.v))
                   [] file = "nonnumeric" ->
                        Result(p2, Exc("ValueError", "could not convert string to float"))
                   [] file = "onerow" ->
                        Result(p2, Exc("IndexError", "too many indices for array"))
                   [] OTHER ->
                        IF "x-label" \notin configuration.v
                        THEN Result(p2, Exc("KeyError", "x-label"))
                        ELSE IF "y-label" \notin configuration.v
                        THEN Result(p2, Exc("KeyError", "y-label"))
                        ELSE Result(SetRef(p2, "picture",
                                           [src |-> "plot", path |-> content.v,
                                            xlabel |-> LabelValue("x-label"),
                                            ylabel |-> LabelValue("y-label")]),
                                    NoExc)

\* the dictionary left after dict.pop("type")
Rest(spec) == [k \in FieldNames |-> spec[k]]

\* Slide.from_dict binding the fields before it looks at the type: a variant
\* the unknown-type property must tell from the code
FromDictBindFirst(pres, spec) ==
    IF spec.type = Absent THEN Result(pres, Exc("KeyError", "type"))
    ELSE IF Unexpected(Rest(spec), {"title", "content", "configuration"}) # {}
    THEN Result(pres, Exc("TypeError", "unexpected keyword argument"))
    ELSE CASE spec.type = JStr("title") -> TitleSlide(pres, Rest(spec))
           [] spec.type = JStr("text") -> TextSlide(pres, Rest(spec))
           [] spec.type = JStr("list") -> ListSlide(pres, Rest(spec))
           [] spec.type = JStr("picture") -> PictureSlide(pres, Rest(spec))
           [] spec.type = JStr("plot") -> PlotSlide(pres, Rest(spec))
           [] OTHER -> Result(pres, Exc("ValueError", spec.type.v))

\* Slide.from_dict
FromDict(pres, spec) ==
    IF spec.type = Absent THEN Result(pres, Exc("KeyError", "type"))
    ELSE CASE spec.type = JStr("title") -> TitleSlide(pres, Rest(spec))
           [] spec.type = JStr("text") -> TextSlide(pres, Rest(spec))
           [] spec.type = JStr("list") -> ListSlide(pres, Rest(spec))
           [] spec.type = JStr("picture") -> PictureSlide(pres, Rest(spec))
           [] spec.type = JStr("plot") -> PlotSlide(pres, Rest(spec))
           [] OTHER -> Result(pres, Exc("ValueError", spec.type.v))

----------------------------------------------------------------------------
(* Slide specifications a configuration may hold *)

TitleVals == {Absent, JStr("T"), JInt(1)}
ExtraVals == {Absent, JStr("x")}
TextVals == {Absent, JStr("C"), JInt(1)}

Entry(level, text) == [level |-> JInt(level), text |-> JStr(text)]

\* two well-formed entries and one whose level is a string
Entries == {Entry(0, "a"), Entry(MaxLevel, "b"),
            [level |-> JStr("1"), text |-> JStr("c")]}

\* sequences of distinct entries, at most MaxEntries long
EntrySeqs ==
    UNION {{q \in [1..n -> Entries] : \A i, j \in 1..n : i # j => q[i] # q[j]}
           : n \in 0..MaxEntries}

ListVals == {Absent, JStr("C")} \cup {JList(q) : q \in EntrySeqs}
PictureVals == {Absent, JStr("img.png"), JStr("none.png"), JInt(1)}
PlotVals == {Absent, JStr("data.csv"), JStr("none.csv"), JStr("text.csv"),
             JStr("row.csv")}
ConfigurationVals ==
    {Absent, JStr("cfg")} \cup {JObj(ks) : ks \in SUBSET {"x-label", "y-label"}}

Types == {"title", "text", "list", "picture", "plot"}

SpecsOf(type, contents, configurations) ==
    {[type |-> type, title |-> t, content |-> c, configuration |-> g, extra |-> e] :
        t \in TitleVals, c \in contents, g \in configurations, e \in ExtraVals}

SlideSpecs ==
    SpecsOf(JStr("title"), TextVals, {Absent})
    \cup SpecsOf(JStr("text"), TextVals, {Absent})
    \cup SpecsOf(JStr("list"), ListVals, {Absent})
    \cup SpecsOf(JStr("picture"), PictureVals, {Absent})
    \cup SpecsOf(JStr("plot"), PlotVals, ConfigurationVals)
    \cup SpecsOf(JStr("video"), {Absent, JStr("C")}, {Absent, JObj({})})
    \cup SpecsOf(Absent, {Absent, JStr("C")}, {Absent})

----------------------------------------------------------------------------
(* The command-line dispatcher (cli.py) *)

\* Python values handed to a handler
PyStr(s) == [t |-> "str", v |-> s]
PyInt(n) == [t |-> "int", v |-> n]
PyBool(b) == [t |-> "bool", v |-> b]
PyNone == [t |-> "none", v |-> ""]

ParamNames == {"config", "output"}
DocTypes == {"bool", "int", "str", "float"}

Param(name, type, optional) ==
    [arg_name |-> name, type_name |-> type, is_optional |-> optional]

\* the Args: section of App.generate's docstring
AppParams == {Param("config", "str", FALSE), Param("output", "str", FALSE)}

\* docstrings a `generate` command may carry: each parameter undocumented or
\* documented with a type and an optionality
ParamDocs ==
    {ps \in SUBSET {Param(n, t, o) : n \in ParamNames, t \in DocTypes, o \in BOOLEAN} :
        \A a, b \in ps : a.arg_name = b.arg_name => a = b}

\* names `from builtins import int, str, bool` puts in the module
ModuleTypes == {"int", "str", "bool"}

\* add_argument with required= taken from is_optional without the negation:
\* a fault the required-flag property must detect
AddArgumentOptional(arg) ==
    IF arg.type_name = "bool"
    THEN [dest |-> arg.arg_name, action |-> "store_true", type |-> "bool",
          required |-> FALSE]
    ELSE [dest |-> arg.arg_name, action |-> "store", type |-> arg.type_name,
          required |-> arg.is_optional]

\* parser.add_argument for one documented parameter
AddArgument(arg) ==
    IF arg.type_name = "bool"
    THEN [dest |-> arg.arg_name, action |-> "store_true", type |-> "bool",
          required |-> FALSE]
    ELSE [dest |-> arg.arg_name, action |-> "store", type |-> arg.type_name,
          required |-> ~arg.is_optional]

\* CommandlineInterface.__init__ for a class with a default command and a
\* `generate` command documented by params, bound to handler
Construct(params, handler) ==
    IF \E arg \in params : arg.type_name # "bool" /\ arg.type_name \notin ModuleTypes
    THEN [ok |-> FALSE, cmds |-> <<>>, flags |-> {}]
    ELSE [ok |-> TRUE,
          cmds |-> ("" :> "default") @@ ("generate" :> handler),
          flags |-> {AddArgument(arg) : arg \in params}]

\* command-line tokens: a flag is not given, given bare, or given with a value
NotGiven == "<not given>"
Bare == "<bare>"
RawVals == Paths \cup {"7"}
OptNames == ParamNames \cup {"verbose"}
Argvs == [cmd : {"", "generate", "bogus"},
          opts : [OptNames -> {NotGiven, Bare} \cup RawVals]]

Given(a) == {o \in OptNames : a.opts[o] # NotGiven}

\* argparse applying type= to the raw string
ConvertOK(type, raw) == type = "str" \/ (type = "int" /\ raw = "7")
Convert(type, raw) == IF type = "int" THEN PyInt(7) ELSE PyStr(raw)

\* the value a flag contributes to the namespace
FlagValue(f, a) ==
    IF f.action = "store_true" THEN PyBool(a.opts[f.dest] # NotGiven)
    ELSE IF a.opts[f.dest] = NotGiven THEN PyNone
    ELSE Convert(f.type, a.opts[f.dest])

\* the argparse error of one flag while it consumes its arguments ("" if none)
ConsumeError(f, a) ==
    LET raw == a.opts[f.dest]
    IN  CASE f.action = "store" /\ raw = Bare -> "expected one argument"
          [] f.action = "store" /\ raw \in RawVals /\ ~ConvertOK(f.type, raw) ->
                "invalid value"
          [] OTHER -> ""

Parsed(error, cmd, kw) == [error |-> error, cmd |-> cmd, kwargs |-> kw]

\* self._parser.parse_args() followed by the split of cmd from the flags
ParseArgs(p, a) ==
    IF a.cmd = ""
    THEN IF Given(a) # {} THEN Parsed("unrecognized arguments", "", <<>>)
         ELSE Parsed("", "", <<>>)
    ELSE IF a.cmd \notin DOMAIN p.cmds THEN Parsed("invalid choice", "", <<>>)
    ELSE LET dests == {f.dest : f \in p.flags}
             flag(d) == CHOOSE f \in p.flags : f.dest = d
         IN  IF \E f \in p.flags : ConsumeError(f, a) # ""
             THEN Parsed(ConsumeError(CHOOSE f \in p.flags : ConsumeError(f, a) # "", a),
                         "", <<>>)
             ELSE IF \E f \in p.flags : f.required /\ a.opts[f.dest] = NotGiven
             THEN Parsed("the following arguments are required", "", <<>>)
             ELSE IF \/ Given(a) \ dests # {}
                     \/ \E f \in p.flags : f.action = "store_true"
                                            /\ a.opts[f.dest] \in RawVals
             THEN Parsed("unrecognized arguments", "", <<>>)
             ELSE Parsed("", a.cmd, [d \in dests |-> FlagValue(flag(d), a)])

----------------------------------------------------------------------------
(* The configuration file *)

\* what open() and json.load() make of a file: kind is "unreadable",
\* "badjson" or "json"; a JSON document has a top-level value ("object" or
\* "array"), an object has keys, and its "presentation" value is "notalist",
\* a list of n objects ("objects") or a list of n values one of which is no
\* object ("nonobject")
File(kind, top, keys, pkind, n) ==
    [kind |-> kind, top |-> top, keys |-> keys, pkind |-> pkind, n |-> n]

Configs ==
    {File("unreadable", "none", {}, "none", 0),
     File("badjson", "none", {}, "none", 0),
     File("json", "array", {}, "none", 0)}
    \cup {File("json", "object", ks, "none", 0) : ks \in {{}, {"other"}}}
    \cup {File("json", "object", ks, "notalist", 0) :
             ks \in {{"presentation"}, {"presentation", "other"}}}
    \cup {File("json", "object", ks, "objects", n) :
             ks \in {{"presentation"}, {"presentation", "other"}}, n \in 0..MaxSlides}
    \cup {File("json", "object", ks, "nonobject", n) :
             ks \in {{"presentation"}, {"presentation", "other"}}, n \in 1..MaxSlides}

\* the file open(path) finds
FileAt(path, cfg) ==
    IF path = ConfigPath THEN cfg ELSE File("unreadable", "none", {}, "none", 0)

\* a check that only asks for a top-level object: a fault the
\* configuration-error property must detect
CheckTypeLax(file) == file.top = "object"

\* typeguard.check_type(data, Config), Config a TypedDict with the one key
\* presentation: list[dict]
CheckType(file) ==
    /\ file.top = "object"
    /\ file.keys = {"presentation"}
    /\ file.pkind = "objects"

\* the three except clauses around the load ("" when the load succeeds)
LoadError(file) ==
    CASE file.kind = "unreadable" -> "OSError"
      [] file.kind = "badjson" -> "JSONDecodeError"
      [] ~CheckType(file) -> "TypeCheckError"
      [] OTHER -> ""

----------------------------------------------------------------------------
(* The process *)

NoFile == File("unreadable", "none", {}, "none", 0)

Start(cfg, ps, handler) ==
    /\ docParams = ps
    /\ parser = Construct(ps, handler)
    /\ argv = [cmd |-> "", opts |-> [o \in OptNames |-> NotGiven]]
    /\ invoked = <<>>
    /\ helpPrinted = FALSE
    /\ usageError = ""
    /\ pc = IF Construct(ps, handler).ok THEN "start" ELSE "ctor_failed"
    /\ fsConfig = cfg
    /\ kwargs = <<>>
    /\ data = NoFile
    /\ presentation = <<>>
    /\ calls = <<>>
    /\ log = <<>>
    /\ saved = <<>>
    /\ raised = NoExc

\* App(): the dispatcher built from App's own docstrings, any file at ConfigPath
Init == \E cfg \in Configs : Start(cfg, AppParams, "generate")

\* a handler class whose generate command carries any of the docstrings
InitCli == \E ps \in ParamDocs : Start(NoFile, ps, "stub")

Info(msg, i) == [level |-> "info", msg |-> msg, slide |-> i]
Error(msg, i) == [level |-> "error", msg |-> msg, slide |-> i]

\* a lookup that always yields the default command: a fault the dispatch
\* property must detect
HandlerDefault(p, cmd) == p.cmds[""]

\* self._cmds[cmd]
Handler(p, cmd) == p.cmds[cmd]

\* CommandlineInterface.run, up to the call of the handler; App.default
\* runs to its end within the step
Run ==
    /\ pc = "start"
    /\ \E a \in Argvs :
        LET r == ParseArgs(parser, a)
            handler == Handler(parser, r.cmd)
        IN  /\ argv' = a
            /\ IF r.error # ""
               THEN /\ usageError' = r.error
                    /\ pc' = "exit"
                    /\ UNCHANGED <<invoked, helpPrinted, kwargs>>
               ELSE /\ invoked' = Append(invoked, [handler |-> handler, kwargs |-> r.kwargs])
                    /\ usageError' = ""
                    /\ helpPrinted' = (handler = "default")
                    /\ kwargs' = IF handler = "generate" THEN r.kwargs ELSE kwargs
                    /\ pc' = IF handler = "generate" THEN "load" ELSE "done"
    /\ UNCHANGED <<docParams, parser, fsConfig, data, presentation, calls, log, saved, raised>>

\* App.generate, lines 59-84: the document is created and the configuration loaded
LoadConfig ==
    /\ pc = "load"
    /\ LET file == FileAt(kwargs.config.v, fsConfig)
           err == LoadError(file)
       IN  IF err # ""
           THEN /\ log' = Append(log, Error(err, 0))
                /\ pc' = "done"
                /\ data' = data
           ELSE /\ log' = Append(log, Info("loaded", 0))
                /\ pc' = "loop"
                /\ data' = file
    /\ presentation' = <<>>
    /\ UNCHANGED <<docParams, parser, argv, invoked, helpPrinted, usageError, fsConfig,
                   kwargs, calls, saved, raised>>

\* the except clause of the slide loop that catches an exception class
\* ("" when none does)
SlideHandler(cls) ==
    CASE cls = "TypeCheckError" -> "not in a valid format"
      [] cls = "ValueError" -> "not in a valid format"
      [] cls = "KeyError" -> "missing a property"
      [] cls = "OSError" -> "file dependency"
      [] OTHER -> ""

\* the loop iteration with `continue` in place of `return` in the except
\* clauses: a fault the abort property must detect
BuildSlideSkip ==
    /\ pc = "loop"
    /\ Len(calls) < data.n
    /\ \E spec \in SlideSpecs :
        LET i == Len(calls) + 1
            r == FromDict(presentation, spec)
            call == [spec |-> spec, exc |-> r.exc,
                     pre |-> Len(presentation), post |-> Len(r.pres)]
        IN  /\ presentation' = r.pres
            /\ calls' = Append(calls, call)
            /\ IF r.exc = NoExc
               THEN /\ log' = Append(log, Info("generated", i))
                    /\ pc' = "loop"
                    /\ raised' = raised
               ELSE IF SlideHandler(r.exc.cls) # ""
               THEN /\ log' = Append(log, Error(SlideHandler(r.exc.cls), i))
                    /\ pc' = "loop"
                    /\ raised' = raised
               ELSE /\ log' = log
                    /\ pc' = "crashed"
                    /\ raised' = r.exc
    /\ UNCHANGED <<docParams, parser, argv, invoked, helpPrinted, usageError,
                   fsConfig, kwargs, data, saved>>

\* one iteration of the loop over data["presentation"] (lines 88-108); the
\* element read by the iteration is any slide specification
BuildSlide ==
    /\ pc = "loop"
    /\ Len(calls) < data.n
    /\ \E spec \in SlideSpecs :
        LET i == Len(calls) + 1
            r == FromDict(presentation, spec)
            call == [spec |-> spec, exc |-> r.exc,
                     pre |-> Len(presentation), post |-> Len(r.pres)]
        IN  /\ presentation' = r.pres
            /\ calls' = Append(calls, call)
            /\ IF r.exc = NoExc
               THEN /\ log' = Append(log, Info("generated", i))
                    /\ pc' = "loop"
                    /\ raised' = raised
               ELSE IF SlideHandler(r.exc.cls) # ""
               THEN /\ log' = Append(log, Error(SlideHandler(r.exc.cls), i))
                    /\ pc' = "done"
                    /\ raised' = raised
               ELSE /\ log' = log
                    /\ pc' = "crashed"
                    /\ raised' = r.exc
    /\ UNCHANGED <<docParams, parser, argv, invoked, helpPrinted, usageError, fsConfig,
                   kwargs, data, saved>>

\* lines 110-118: the loop is over, the presentation is saved
Save ==
    /\ pc = "loop"
    /\ Len(calls) = data.n
    /\ IF Writable(kwargs.output.v)
       THEN /\ saved' = Append(saved, [path |-> kwargs.output.v, doc |-> presentation])
            /\ log' = Append(log, Info("saved", 0))
       ELSE /\ saved' = saved
            /\ log' = Append(log, Error("save", 0))
    /\ pc' = "done"
    /\ UNCHANGED <<docParams, parser, argv, invoked, helpPrinted, usageError, fsConfig,
                   kwargs, data, presentation, calls, raised>>

Next == Run \/ LoadConfig \/ BuildSlide \/ Save

Spec == Init /\ [][Next]_vars

NextCli == Run

SpecCli == InitCli /\ [][NextCli]_vars

----------------------------------------------------------------------------
(* Vocabulary of the properties *)

\* generate was entered by this run
InGenerate == invoked # <<>> /\ invoked[1].handler = "generate"

\* the file generate was asked to load
ConfigFile == FileAt(kwargs.config.v, fsConfig)

\* section 3 of the specification: an object with the one field
\* presentation, a sequence of objects
ConfigShape(file) ==
    /\ file.kind = "json"
    /\ file.top = "object"
    /\ file.keys = {"presentation"}
    /\ file.pkind = "objects"

\* unreadable, not JSON, or a top-level value without a presentation that is
\* a sequence of objects
BadConfig(file) ==
    \/ file.kind # "json"
    \/ file.top # "object"
    \/ "presentation" \notin file.keys
    \/ file.pkind # "objects"

StrOrAbsent(x) == x = Absent \/ x.t = "str"

\* a slide specification of section 3 whose resources load
ValidSpec(s) ==
    /\ s.type.t = "str" /\ s.type.v \in Types
    /\ s.extra = Absent
    /\ StrOrAbsent(s.title)
    /\ CASE s.type.v \in {"title", "text"} ->
                StrOrAbsent(s.content) /\ s.configuration = Absent
         [] s.type.v = "list" ->
                /\ s.configuration = Absent
                /\ \/ s.content = Absent
                   \/ /\ s.content.t = "list"
                      /\ \A j \in 1..Len(s.content.v) :
                            /\ s.content.v[j].level.t = "int"
                            /\ s.content.v[j].text.t = "str"
         [] s.type.v = "picture" ->
                /\ s.configuration = Absent
                /\ s.content.t = "str" /\ s.content.v = "img.png"
         [] OTHER ->
                /\ s.content.t = "str" /\ s.content.v = "data.csv"
                /\ s.configuration.t = "dict"
                /\ {"x-label", "y-label"} \subseteq s.configuration.v

\* the layout section 4.2 gives a variant
VariantLayout(type) ==
    CASE type = "title" -> TitleLayout
      [] type = "list" -> BulletLayout
      [] OTHER -> ContentLayout

TextOf(x) == IF x = Absent THEN "" ELSE x.v

\* slide sl carries what specification s asks for
BuiltFrom(sl, s) ==
    /\ sl.layout = VariantLayout(s.type.v)
    /\ sl.title = TextOf(s.title)
    /\ CASE s.type.v = "title" -> sl.body = TextOf(s.content)
         [] s.type.v = "text" -> sl.textbox = TextOf(s.content)
         [] s.type.v = "list" ->
                Len(sl.paragraphs) = (IF s.content = Absent THEN 0 ELSE Len(s.content.v))
         [] s.type.v = "picture" ->
                sl.picture.src = "file" /\ sl.picture.path = s.content.v
         [] OTHER -> sl.picture.src = "plot" /\ sl.picture.path = s.content.v

Failed(k) == calls[k].exc # NoExc

----------------------------------------------------------------------------
(* C1 *)

\* C1: a generate run over a well-formed configuration of N valid slide
\* specifications (and an output path that can be written) ends with the
\* document saved exactly once to the output path, the saved document holding
\* exactly N slides, the i-th built from the i-th specification with the
\* layout of its variant; no run saves more than once.
C1_SavedDeck ==
    /\ Len(saved) <= 1
    /\ ( /\ pc = "done"
         /\ InGenerate
         /\ ConfigShape(ConfigFile)
         /\ \A k \in 1..Len(calls) : ValidSpec(calls[k].spec)
         /\ Writable(kwargs.output.v) )
       => /\ Len(calls) = ConfigFile.n
          /\ Len(saved) = 1
          /\ saved[1].path = kwargs.output.v
          /\ Len(saved[1].doc) = ConfigFile.n
          /\ \A i \in 1..ConfigFile.n : BuiltFrom(saved[1].doc[i], calls[i].spec)

C1_Witness ==
    /\ pc = "done"
    /\ Len(saved) = 1
    /\ Len(saved[1].doc) = 2
    /\ calls[1].spec.type = JStr("list")
    /\ calls[2].spec.type = JStr("text")
    /\ saved[1].doc[1].layout = BulletLayout
    /\ saved[1].doc[2].layout = ContentLayout

----------------------------------------------------------------------------
(* C2 *)

\* C2: once the build of the slide at position k has failed, the run is
\* over: k is the last specification ever passed to the factory and nothing
\* is saved, however many slides were built before it.
C2_AbortOnFailure ==
    \A k \in 1..Len(calls) :
        Failed(k) => /\ k = Len(calls)
                     /\ pc \in {"done", "crashed"}
                     /\ saved = <<>>

\* the first of two specifications fails: the second is never built
C2_Witness ==
    /\ pc = "done"
    /\ data.n = 2
    /\ Len(calls) = 1
    /\ Failed(1)
    /\ calls[1].exc.cls = "OSError"

----------------------------------------------------------------------------
(* C3 *)

\* C3: every failure of a slide build is caught by generate: an error is
\* logged for the slide, generate returns normally and no exception
\* propagates out of it.
C3_AllFailuresCaught ==
    /\ pc # "crashed"
    /\ raised = NoExc
    /\ \A k \in 1..Len(calls) :
          Failed(k) => /\ pc = "done"
                       /\ log[Len(log)].level = "error"
                       /\ log[Len(log)].slide = k

----------------------------------------------------------------------------
(* C4 *)

----------------------------------------------------------------------------
(* C5 *)

UnknownType(s) == s.type # Absent /\ s.type.v \notin Types

\* C5: a specification whose type is none of the five makes the factory
\* fail with the unknown-type error naming the type, whatever its other
\* fields, before the document is touched, and no later specification is
\* processed.
C5_UnknownType ==
    \A k \in 1..Len(calls) :
        UnknownType(calls[k].spec)
        => /\ calls[k].exc = Exc("ValueError", calls[k].spec.type.v)
           /\ calls[k].post = calls[k].pre
           /\ k = Len(calls)
           /\ pc = "done"
           /\ log[Len(log)] = Error("not in a valid format", k)

\* an unknown type met with an unrecognized field and a configuration
C5_Witness ==
    \E k \in 1..Len(calls) :
        /\ UnknownType(calls[k].spec)
        /\ calls[k].spec.extra # Absent
        /\ calls[k].spec.configuration # Absent
        /\ data.n > k
        /\ pc = "done"

----------------------------------------------------------------------------
(* C6 *)

\* a plot specification without configuration.x-label
PlotLacksXLabel(s) ==
    /\ s.type = JStr("plot")
    /\ \/ s.configuration = Absent
       \/ s.configuration.t = "dict" /\ "x-label" \notin s.configuration.v

\* the other fields are of the right shape and the data file loads as a table
PlotOtherwiseLoads(s) ==
    /\ s.extra = Absent
    /\ StrOrAbsent(s.title)
    /\ s.content.t = "str"
    /\ DataFile(s.content.v) = "table"

\* C6 as claimed: a plot specification lacking x-label fails with the
\* missing-field error and no other, for every value of its other fields,
\* and nothing is saved.
C6_MissingXLabel ==
    \A k \in 1..Len(calls) :
        PlotLacksXLabel(calls[k].spec)
        => /\ calls[k].exc.cls = "KeyError"
           /\ saved = <<>>

\* C6 as amended: a plot specification lacking x-label always fails and
\* nothing is saved; the failure is the missing-field error for x-label
\* exactly when its other fields are well-shaped and content names a data
\* file that loads as a two-column table, and otherwise it is the error of
\* the earlier check (unrecognized field, shape, data file).
C6_MissingXLabelAmended ==
    \A k \in 1..Len(calls) :
        PlotLacksXLabel(calls[k].spec)
        => /\ Failed(k)
           /\ saved = <<>>
           /\ pc \in {"done", "crashed"}
           /\ PlotOtherwiseLoads(calls[k].spec)
                 <=> calls[k].exc = Exc("KeyError", "x-label")
           /\ ~PlotOtherwiseLoads(calls[k].spec)
                 => calls[k].exc.cls \in {"TypeError", "TypeCheckError", "OSError",
                                          "ValueError", "IndexError"}

C6_Witness ==
    \E k \in 1..Len(calls) :
        /\ PlotLacksXLabel(calls[k].spec)
        /\ PlotOtherwiseLoads(calls[k].spec)
        /\ calls[k].exc = Exc("KeyError", "x-label")
        /\ pc = "done"
        /\ log[Len(log)] = Error("missing a property", k)

----------------------------------------------------------------------------
(* C7 *)

\* run() has returned or entered the handler after a successful parse
Dispatched == pc \notin {"start", "exit", "ctor_failed"}

\* C7: run() never invokes more than one handler, and an invocation whose
\* arguments parse invokes exactly one: with no subcommand the default
\* command, which prints the help and touches nothing else (no configuration
\* loaded, no slide built, nothing logged or saved); with subcommand generate
\* the generate handler, called with the parsed flags as keyword arguments,
\* and the help is not printed.
C7_OneHandler ==
    /\ Len(invoked) <= 1
    /\ Dispatched => Len(invoked) = 1
    /\ (Dispatched /\ argv.cmd = "")
       => /\ invoked = <<[handler |-> "default", kwargs |-> <<>>]>>
          /\ helpPrinted
          /\ pc = "done"
          /\ data = NoFile /\ presentation = <<>> /\ calls = <<>>
          /\ log = <<>> /\ saved = <<>>
    /\ (Dispatched /\ argv.cmd = "generate")
       => /\ invoked[1].handler = "generate"
          /\ invoked[1].kwargs = [config |-> PyStr(argv.opts["config"]),
                                  output |-> PyStr(argv.opts["output"])]
          /\ kwargs = invoked[1].kwargs
          /\ ~helpPrinted

\* a generate call whose flags parsed and that went on to save
C7_Witness ==
    /\ pc = "done"
    /\ argv.cmd = "generate"
    /\ invoked[1].handler = "generate"
    /\ argv.opts["config"] = ConfigPath
    /\ saved # <<>>

----------------------------------------------------------------------------
(* C8 *)

ValueParams == {a \in docParams : a.type_name # "bool"}
RequiredParams == {a \in ValueParams : ~a.is_optional}

\* every value the command line gives a value-taking flag is one argument
\* that converts to the documented type
ValuesWellFormed ==
    \A a \in ValueParams :
        argv.opts[a.arg_name] # NotGiven
        => /\ argv.opts[a.arg_name] \in RawVals
           /\ a.type_name = "int" => argv.opts[a.arg_name] = "7"

----------------------------------------------------------------------------
(* C9 *)

\* the failure is raised before the constructor body runs: a missing or
\* unknown type, an unrecognized field, a field of the wrong shape
ArgumentFailure(exc) ==
    \/ exc.cls \in {"TypeError", "TypeCheckError"}
    \/ exc = Exc("KeyError", "type")
    \/ exc.cls = "ValueError" /\ exc.arg # "could not convert string to float"

----------------------------------------------------------------------------
(* C10 *)

====
